---------------------------- MODULE Spec2Model ----------------------------
(***************************************************************************)
(* Model of the three rule-driven source patchers of the repository:      *)
(*   src/patches/performance.py  (VKD3DPatcher, worker pool)   "performance" *)
(*   src/patches/patcher.py      (VKD3DPatcher, sequential)    "patches"     *)
(*   src/scripts/patcher.py      (V3XPatcher, sequential)      "scripts"     *)
(*                                                                         *)
(* File text is a sequence of tokens.  A token is one lexical unit the     *)
(* shipped patterns can tell apart:                                        *)
(*   asgn    f1 = f2 = ... = v;     (lhs = <<f1, f2, ...>>, v = value)      *)
(*   struct  struct NAME { ... ANCHOR;   (the text up to the anchor member) *)
(*   field   an injected member block following a struct anchor             *)
(*   define  #define NAME v                                                 *)
(*   call    NAME()                                                         *)
(*   word    any other text                                                 *)
(***************************************************************************)
EXTENDS Integers, Sequences, FiniteSets, TLC

VARIABLES
    cfg,        \* the patcher object's configuration fields (set by __init__)
    fault,      \* environment: what the OS does when a path is opened
    disk,       \* path -> file text currently on disk
    disk0,      \* path -> file text when the current run started
    writes,     \* path -> number of times the file was opened for writing in this run
    pass,       \* number of the current invocation of the program on this tree
    prev,       \* (path, rule name) pairs that matched in the previous invocation
    pc,         \* position of apply_all / apply
    validated,  \* names of the rule sets handed to _validate_patches, in order
    tasks,      \* the (path, rule set) units, in the order apply_all builds them
    units,      \* per unit: the locals of _apply_patches_to_file / _apply_file
    completed,  \* the finished futures as_completed has still to yield, oldest first
    result,     \* the PatchResult (scripts: the applied/skipped/failed/errors/details fields)
    exit_status \* what main() passes to sys.exit

vars == <<cfg, fault, disk, disk0, writes, pass, prev, pc, validated, tasks,
          units, completed, result, exit_status>>

---------------------------------------------------------------------------
(* Tokens *)

Asgn(lhs, v)   == [k |-> "asgn",   lhs |-> lhs,      v |-> v]
Struct(name)   == [k |-> "struct", lhs |-> <<name>>, v |-> ""]
Field(name, v) == [k |-> "field",  lhs |-> <<name>>, v |-> v]
Define(name, v) == [k |-> "define", lhs |-> <<name>>, v |-> v]
Call(name)     == [k |-> "call",   lhs |-> <<name>>, v |-> ""]
Word(w)        == [k |-> "word",   lhs |-> <<>>,     v |-> w]

Digits == {"0", "1", "16384"}

---------------------------------------------------------------------------
\* Rules.  kind says which regular expression shape the rule has
\* (whitespace classes of the patterns elided):
\*   assign  (KEY = )[^;]+;                   ->  \1TO;
\*   limit   (KEY = )\d+                      ->  \g<1>TO
\*   inject  (struct KEY {[^}]+)(ANCHOR;)     ->  \1\2 followed by the member block TO
\*   define  #define KEY FROM                 ->  #define KEY TO
\*   call    (KEY())                          ->  TO
\* bad is "none" for every shipped rule; "pattern" marks a pattern that
\* re.compile / re.findall rejects and "template" a replacement that
\* re.sub rejects.

Rule(name, kind, key, from, to) ==
    [name |-> name, kind |-> kind, key |-> key, from |-> from, to |-> to, bad |-> "none"]

RBT == "options.ResourceBindingTier"
TRT == "options.TiledResourcesTier"
RTT == "options5.RaytracingTier"
HSM == "data->HighestShaderModel"

\* ---- src/patches/performance.py
CAPABILITY_PATCHES ==
    << Rule("shader_model_6_8", "assign", HSM, "[^;]+", "D3D_SHADER_MODEL_6_8"),
       Rule("resource_binding_tier", "assign", RBT, "[^;]+", "D3D12_RESOURCE_BINDING_TIER_3"),
       Rule("tiled_resources_tier", "assign", TRT, "[^;]+", "D3D12_TILED_RESOURCES_TIER_4") >>

DESCRIPTOR_CACHE_PATCHES ==
    << Rule("descriptor_heap_cache_fields", "inject", "d3d12_descriptor_heap", "",
            "last_descriptor_hash") >>

COMMAND_BATCH_PATCHES ==
    << Rule("command_queue_batch_fields", "inject", "d3d12_command_queue", "",
            "pending_submits") >>

BARRIER_OPT_PATCHES ==
    << Rule("command_list_barrier_state", "inject", "d3d12_command_list", "",
            "barrier_state") >>

PIPELINE_CACHE_PATCHES ==
    << Rule("device_pipeline_cache", "inject", "d3d12_device", "", "pipeline_cache") >>

CPU_X86_64_PATCHES ==
    << Rule("force_avx", "call", "vkd3d_cpu_supports_avx", "", "true"),
       Rule("enable_avx", "define", "VKD3D_ENABLE_AVX", "\\d+", "1") >>

CPU_ARM64EC_PATCHES ==
    << Rule("disable_avx", "define", "VKD3D_ENABLE_AVX", "\\d+", "0"),
       Rule("disable_avx_check", "call", "vkd3d_cpu_supports_avx", "", "false") >>

PERFORMANCE_PATCHES ==
    << Rule("disable_debug", "define", "VKD3D_DEBUG", "1", "0") >>

TURNIP_PATCHES ==
    << Rule("increase_descriptor_pool", "limit", "maxSets", "\\d+", "16384") >>

DXR_PATCHES ==
    << Rule("raytracing_tier", "assign", RTT, "[^;]+", "D3D12_RAYTRACING_TIER_1_1") >>

\* ---- src/patches/patcher.py   (make_assignment_pattern adds the guards
\*      (?<![=!<>]) and (?![=]); on the tokens above it matches what the
\*      unguarded pattern matches)
make_assignment_pattern(name, var_path, to) == Rule(name, "assign", var_path, "[^;]+", to)

SHADER_MODEL_PATCHES ==
    << make_assignment_pattern("shader_model_6_9", HSM, "D3D_SHADER_MODEL_6_9") >>
WAVE_OPERATIONS_PATCHES ==
    << make_assignment_pattern("wave_ops", "options1.WaveOps", "TRUE") >>
RESOURCE_BINDING_PATCHES ==
    << make_assignment_pattern("resource_binding_tier", RBT, "D3D12_RESOURCE_BINDING_TIER_3"),
       make_assignment_pattern("tiled_resources_tier", TRT, "D3D12_TILED_RESOURCES_TIER_4") >>
SHADER_OPERATIONS_PATCHES ==
    << make_assignment_pattern("int64_ops", "options1.Int64ShaderOps", "TRUE") >>
NANITE_PATCHES ==
    << make_assignment_pattern("mesh_shader", "options7.MeshShaderTier", "D3D12_MESH_SHADER_TIER_1") >>
LUMEN_PATCHES ==
    << make_assignment_pattern("raytracing_tier", RTT, "D3D12_RAYTRACING_TIER_1_1") >>
VIRTUAL_SHADOW_MAPS_PATCHES ==
    << make_assignment_pattern("sampler_feedback", "options7.SamplerFeedbackTier",
                               "D3D12_SAMPLER_FEEDBACK_TIER_1_0") >>
TEXTURE_STREAMING_PATCHES ==
    << make_assignment_pattern("gpu_upload_heap", "options16.GPUUploadHeapSupported", "TRUE") >>
RENDERING_FEATURES_PATCHES ==
    << make_assignment_pattern("triangle_fan", "options15.TriangleFanSupported", "TRUE") >>
GPU_SPOOF_PATCHES ==
    << make_assignment_pattern("vendor_id", "adapter_id.vendor_id", "0x1002"),
       Rule("dxgi_vendor", "assign", "VendorId", "[^;]+", "0x1002") >>
PATCHER_PERFORMANCE_PATCHES ==
    << Rule("disable_debug", "define", "VKD3D_DEBUG", "1", "0") >>
PATCHER_CPU_X86_64_PATCHES ==
    << Rule("enable_avx", "define", "VKD3D_ENABLE_AVX", "\\d+", "1") >>
PATCHER_CPU_ARM64EC_PATCHES ==
    << Rule("disable_avx", "define", "VKD3D_ENABLE_AVX", "\\d+", "0") >>

\* ---- src/scripts/patcher.py
mk_asgn(name, var, to) == Rule(name, "assign", var, "[^;]+", to)

GPU_P == << mk_asgn("g0", "adapter_id.vendor_id", "0x1002"),
            Rule("g2", "assign", "VendorId", "[^;]+", "0x1002") >>
SM_P == << mk_asgn("sm68", HSM, "D3D_SHADER_MODEL_6_8") >>
WV_P == << mk_asgn("wv0", "options1.WaveOps", "TRUE") >>
RB_P == << mk_asgn("rb0", RBT, "D3D12_RESOURCE_BINDING_TIER_3"),
           mk_asgn("rb1", TRT, "D3D12_TILED_RESOURCES_TIER_4") >>
SO_P == << mk_asgn("so1", "options1.Int64ShaderOps", "TRUE") >>
MS_P == << mk_asgn("ms0", "options7.MeshShaderTier", "D3D12_MESH_SHADER_TIER_1") >>
RT_P == << mk_asgn("rt0", RTT, "D3D12_RAYTRACING_TIER_1_1") >>
S_F_P == << mk_asgn("sf0", "options7.SamplerFeedbackTier", "D3D12_SAMPLER_FEEDBACK_TIER_1_0") >>
TX_P == << mk_asgn("tx0", "options8.UnalignedBlockTexturesSupported", "TRUE") >>
RN_P == << mk_asgn("rn4", "options15.TriangleFanSupported", "TRUE") >>

\* ---- rule lists under edit: a list that holds one rule the re module
\*      rejects, between rules of the shipped lists
\*   unbalanced_group    pattern `(KEY = [^;]+;` : re.compile raises re.error
\*   bad_group_reference replacement `\2TO;` for a pattern with one group:
\*                       the substitution raises re.error
MALFORMED_PATTERN_PATCHES ==
    << Rule("resource_binding_tier", "assign", RBT, "[^;]+", "D3D12_RESOURCE_BINDING_TIER_3"),
       [Rule("unbalanced_group", "assign", RTT, "[^;]+", "D3D12_RAYTRACING_TIER_1_1")
           EXCEPT !.bad = "pattern"],
       Rule("disable_debug", "define", "VKD3D_DEBUG", "1", "0") >>

MALFORMED_TEMPLATE_PATCHES ==
    << Rule("resource_binding_tier", "assign", RBT, "[^;]+", "D3D12_RESOURCE_BINDING_TIER_3"),
       [Rule("bad_group_reference", "assign", RTT, "[^;]+", "D3D12_RAYTRACING_TIER_1_1")
           EXCEPT !.bad = "template"],
       Rule("disable_debug", "define", "VKD3D_DEBUG", "1", "0") >>

\* A rule set is referred to by the name of the list that holds it.
PatchSet(name) ==
    CASE name = "CAPABILITY_PATCHES"          -> CAPABILITY_PATCHES
      [] name = "DESCRIPTOR_CACHE_PATCHES"    -> DESCRIPTOR_CACHE_PATCHES
      [] name = "COMMAND_BATCH_PATCHES"       -> COMMAND_BATCH_PATCHES
      [] name = "BARRIER_OPT_PATCHES"         -> BARRIER_OPT_PATCHES
      [] name = "PIPELINE_CACHE_PATCHES"      -> PIPELINE_CACHE_PATCHES
      [] name = "TURNIP_PATCHES"              -> TURNIP_PATCHES
      [] name = "DXR_PATCHES"                 -> DXR_PATCHES
      [] name = "CPU_X86_64_PATCHES"          -> CPU_X86_64_PATCHES
      [] name = "CPU_ARM64EC_PATCHES"         -> CPU_ARM64EC_PATCHES
      [] name = "PERFORMANCE_PATCHES"         -> PERFORMANCE_PATCHES
      [] name = "SHADER_MODEL_PATCHES"        -> SHADER_MODEL_PATCHES
      [] name = "WAVE_OPERATIONS_PATCHES"     -> WAVE_OPERATIONS_PATCHES
      [] name = "RESOURCE_BINDING_PATCHES"    -> RESOURCE_BINDING_PATCHES
      [] name = "SHADER_OPERATIONS_PATCHES"   -> SHADER_OPERATIONS_PATCHES
      [] name = "NANITE_PATCHES"              -> NANITE_PATCHES
      [] name = "LUMEN_PATCHES"               -> LUMEN_PATCHES
      [] name = "VIRTUAL_SHADOW_MAPS_PATCHES" -> VIRTUAL_SHADOW_MAPS_PATCHES
      [] name = "TEXTURE_STREAMING_PATCHES"   -> TEXTURE_STREAMING_PATCHES
      [] name = "RENDERING_FEATURES_PATCHES"  -> RENDERING_FEATURES_PATCHES
      [] name = "GPU_SPOOF_PATCHES"           -> GPU_SPOOF_PATCHES
      [] name = "PATCHER_PERFORMANCE_PATCHES" -> PATCHER_PERFORMANCE_PATCHES
      [] name = "PATCHER_CPU_X86_64_PATCHES"  -> PATCHER_CPU_X86_64_PATCHES
      [] name = "PATCHER_CPU_ARM64EC_PATCHES" -> PATCHER_CPU_ARM64EC_PATCHES
      [] name = "MALFORMED_PATTERN_PATCHES"   -> MALFORMED_PATTERN_PATCHES
      [] name = "MALFORMED_TEMPLATE_PATCHES"  -> MALFORMED_TEMPLATE_PATCHES
      [] name = "GPU_P" -> GPU_P
      [] name = "SM_P"  -> SM_P
      [] name = "WV_P"  -> WV_P
      [] name = "RB_P"  -> RB_P
      [] name = "SO_P"  -> SO_P
      [] name = "MS_P"  -> MS_P
      [] name = "RT_P"  -> RT_P
      [] name = "SF_P"  -> S_F_P
      [] name = "TX_P"  -> TX_P
      [] name = "RN_P"  -> RN_P

---------------------------------------------------------------------------
(* Matching and substitution: re.findall / re.sub on the token text *)

\* Position of the first occurrence of key in a left-hand-side chain, 0 if none.
KeyPos(lhs, key) ==
    IF \E i \in 1..Len(lhs) : lhs[i] = key
    THEN CHOOSE i \in 1..Len(lhs) : lhs[i] = key /\ \A j \in 1..(i-1) : lhs[j] # key
    ELSE 0

\* Non-overlapping matches of the rule's pattern inside one token.
MatchesInToken(rule, tok) ==
    CASE rule.kind = "assign" ->
            IF tok.k = "asgn" /\ KeyPos(tok.lhs, rule.key) > 0 THEN 1 ELSE 0
      [] rule.kind = "limit" ->
            IF tok.k = "asgn" /\ tok.lhs[Len(tok.lhs)] = rule.key /\ tok.v \in Digits
            THEN 1 ELSE 0
      [] rule.kind = "inject" ->
            IF tok.k = "struct" /\ tok.lhs = <<rule.key>> THEN 1 ELSE 0
      [] rule.kind = "define" ->
            IF tok.k = "define" /\ tok.lhs = <<rule.key>>
               /\ (IF rule.from = "\\d+" THEN tok.v \in Digits ELSE tok.v = rule.from)
            THEN 1 ELSE 0
      [] rule.kind = "call" ->
            IF tok.k = "call" /\ tok.lhs = <<rule.key>> THEN 1 ELSE 0

\* The tokens that replace tok when the rule's replacement is expanded on it.
SubstituteToken(rule, tok) ==
    IF MatchesInToken(rule, tok) = 0 THEN <<tok>>
    ELSE CASE rule.kind = "assign" ->
                 << Asgn(SubSeq(tok.lhs, 1, KeyPos(tok.lhs, rule.key)), rule.to) >>
           [] rule.kind = "limit"  -> << Asgn(tok.lhs, rule.to) >>
           [] rule.kind = "inject" -> << tok, Field(rule.key, rule.to) >>
           [] rule.kind = "define" -> << Define(rule.key, rule.to) >>
           [] rule.kind = "call"   -> << Word(rule.to) >>

RECURSIVE findall(_, _)
findall(rule, content) ==
    IF content = <<>> THEN 0
    ELSE MatchesInToken(rule, Head(content)) + findall(rule, Tail(content))

RECURSIVE sub(_, _)
sub(rule, content) ==
    IF content = <<>> THEN <<>>
    ELSE SubstituteToken(rule, Head(content)) \o sub(rule, Tail(content))

---------------------------------------------------------------------------
(* The rule loop of one unit *)

\* `not self.dry_run` / `not self.dry`: the condition under which a unit
\* substitutes into its buffer and writes the buffer back.
PersistsAlways(dry) == TRUE
Persists(dry) == ~dry

Basename(path) == path[Len(path)]

\* (variant: the read failure is recorded without the file's name)
ReadErrorUnnamed(variant, path) == [kind |-> "read", file |-> <<>>, rule |-> ""]
ReadError(variant, path)  == [kind |-> "read",  file |-> path, rule |-> ""]
\* (variant: the write failure is recorded without the file's name)
WriteErrorUnnamed(variant, path) == [kind |-> "write", file |-> <<>>, rule |-> ""]
WriteError(variant, path) == [kind |-> "write", file |-> path, rule |-> ""]
\* scripts: f"RE:{name}:{e}" does not name the file
RegexError(variant, path, name) ==
    [kind |-> "regex", file |-> IF variant = "scripts" THEN <<>> ELSE path, rule |-> name]

\* The locals of the loop before the first rule.
LoopStart(content) ==
    [content |-> content, applied |-> 0, skipped |-> 0, errors |-> <<>>,
     changes |-> <<>>, found |-> <<>>]

\* (variant: the loop without its `else: skipped += 1` branch)
ApplyRuleWithoutSkip(acc, rule, dry, variant, path) ==
    IF rule.bad = "pattern"
    THEN [acc EXCEPT !.errors = Append(@, RegexError(variant, path, rule.name)),
                     !.found = Append(@, -1)]
    ELSE LET matches == findall(rule, acc.content) IN
         IF matches > 0
         THEN IF Persists(dry) /\ rule.bad = "template"
              THEN [acc EXCEPT !.errors = Append(@, RegexError(variant, path, rule.name)),
                               !.found = Append(@, matches)]
              ELSE [acc EXCEPT
                       !.content = IF Persists(dry) THEN sub(rule, acc.content) ELSE @,
                       !.applied = @ + matches,
                       !.changes = Append(@, [name |-> rule.name, matches |-> matches]),
                       !.found = Append(@, matches)]
         ELSE [acc EXCEPT !.found = Append(@, 0)]

\* One iteration of `for pattern, replacement, name in patches`.
\* found is the value of `matches` in each iteration (-1: never assigned).
ApplyRule(acc, rule, dry, variant, path) ==
    IF rule.bad = "pattern"
    THEN [acc EXCEPT !.errors = Append(@, RegexError(variant, path, rule.name)),
                     !.found = Append(@, -1)]
    ELSE LET matches == findall(rule, acc.content) IN
         IF matches > 0
         THEN IF Persists(dry) /\ rule.bad = "template"
              THEN [acc EXCEPT !.errors = Append(@, RegexError(variant, path, rule.name)),
                               !.found = Append(@, matches)]
              ELSE [acc EXCEPT
                       !.content = IF Persists(dry) THEN sub(rule, acc.content) ELSE @,
                       !.applied = @ + matches,
                       !.changes = Append(@, [name |-> rule.name, matches |-> matches]),
                       !.found = Append(@, matches)]
         ELSE [acc EXCEPT !.skipped = @ + 1, !.found = Append(@, 0)]

\* (variant: every rule is matched and substituted on the content read, the
\* buffer being that of the last rule that matched)
RECURSIVE ApplyEachToOriginal(_, _, _, _, _, _)
ApplyEachToOriginal(original, acc, patches, dry, variant, path) ==
    IF patches = <<>> THEN acc
    ELSE LET one == ApplyRule([acc EXCEPT !.content = original], Head(patches),
                              dry, variant, path)
             kept == [one EXCEPT !.content = IF one.content # original
                                             THEN one.content ELSE acc.content]
         IN ApplyEachToOriginal(original, kept, Tail(patches), dry, variant, path)

ApplyRulesOnOriginal(acc, patches, dry, variant, path) ==
    ApplyEachToOriginal(acc.content, acc, patches, dry, variant, path)

\* `for pattern, replacement, name in patches`: the rules in list order, each
\* on the buffer the earlier ones left.
RECURSIVE ApplyRules(_, _, _, _, _)
ApplyRules(acc, patches, dry, variant, path) ==
    IF patches = <<>> THEN acc
    ELSE ApplyRules(ApplyRule(acc, Head(patches), dry, variant, path),
                    Tail(patches), dry, variant, path)

\* The change record a unit emits: {'file': basename, 'changes': [...]};
\* scripts adds 'p': the full path.
Detail(variant, path, changes) ==
    [file |-> Basename(path),
     path |-> IF variant = "scripts" THEN path ELSE <<>>,
     changes |-> changes]

\* (variant: the buffer is written back whenever the run is not a dry run)
MustWriteUnconditionally(content, original, dry) == Persists(dry)

\* `if content != original and not self.dry_run`
MustWrite(content, original, dry) == content # original /\ Persists(dry)

---------------------------------------------------------------------------
(* File targeting.  A path is the sequence of its components below src_dir. *)

P_DEVICE == <<"libs", "vkd3d", "device.c">>
P_DXGI   == <<"libs", "dxgi", "device.c">>
P_UTILS  == <<"libs", "vkd3d", "utils.c">>
P_TESTS_DEVICE == <<"libs", "vkd3d", "tests", "device.c">>
P_SRC_DEVICE   == <<"src", "device.c">>

\* glob returns paths in directory order: a fixed order of the tree's paths.
GlobOrder == << P_DEVICE, P_DXGI, P_UTILS, P_TESTS_DEVICE, P_SRC_DEVICE >>

\* [f for f in files if f is kept]
Filter(files, kept) == SelectSeq(files, LAMBDA f : f \in kept)

IsCOrH(name) == name \in {"device.c", "utils.c"}

\* `ex in f` for a path f: some component holds the substring
InPath(ex, path) == \E i \in 1..Len(path) : path[i] = ex
AnyIn(exs, path) == \E ex \in exs : InPath(ex, path)

IsPrefix(dir, path) == Len(dir) < Len(path) /\ SubSeq(path, 1, Len(dir)) = dir
IsDir(dir, tree) == dir = <<>> \/ \E p \in tree : IsPrefix(dir, p)

\* performance.py: glob('libs/vkd3d/*.[ch]') or else glob('src/**/*.[ch]')
DeviceFiles(tree) ==
    LET direct(p) == Len(p) = 3 /\ IsPrefix(<<"libs", "vkd3d">>, p) /\ IsCOrH(Basename(p))
        under_src(p) == IsPrefix(<<"src">>, p) /\ IsCOrH(Basename(p))
        first == Filter(GlobOrder, {p \in tree : direct(p)})
    IN IF first # <<>> THEN first ELSE Filter(GlobOrder, {p \in tree : under_src(p)})

\* performance.py: glob('**/*.[ch]') without 'tests' and 'demos'
AllFiles(tree) ==
    LET keep(p) == IsCOrH(Basename(p)) /\ ~AnyIn({"tests", "demos"}, p)
    IN Filter(GlobOrder, {p \in tree : keep(p)})

\* patcher.py
EXCLUDED_DIRS == {"tests", "demos", "include"}
find_vkd3d_dir(tree) ==
    IF IsDir(<<"libs", "vkd3d">>, tree) THEN <<"libs", "vkd3d">> ELSE <<>>
CapabilityFiles(tree) ==
    LET keep(p) == IsPrefix(find_vkd3d_dir(tree), p) /\ Basename(p) = "device.c"
                   /\ ~AnyIn(EXCLUDED_DIRS, p)
    IN Filter(GlobOrder, {p \in tree : keep(p)})
AllCFiles(tree) ==
    LET keep(p) == IsCOrH(Basename(p)) /\ ~AnyIn(EXCLUDED_DIRS, p)
    IN Filter(GlobOrder, {p \in tree : keep(p)})

\* scripts/patcher.py
EX_D == {"tests", "demos", "include", ".git"}
find_files(src, pat, tree) ==
    LET keep(p) == IsPrefix(src, p) /\ Basename(p) = pat /\ ~AnyIn(EX_D, p)
    IN Filter(GlobOrder, {p \in tree : keep(p)})
HasDeviceC(c, tree) == \E p \in tree : IsPrefix(c, p) /\ Basename(p) = "device.c"
find_vkd3d(tree) ==
    IF IsDir(<<"libs", "vkd3d">>, tree) /\ HasDeviceC(<<"libs", "vkd3d">>, tree)
    THEN <<"libs", "vkd3d">>
    ELSE IF IsDir(<<"src">>, tree) /\ HasDeviceC(<<"src">>, tree)
    THEN <<"src">>
    ELSE <<>>

---------------------------------------------------------------------------
(* Rule groups and the unit list *)

\* patcher.py _get_patches_for_profile
get_patches_for_profile(profile) ==
    LET base_patches == << "SHADER_MODEL_PATCHES", "WAVE_OPERATIONS_PATCHES",
                           "RESOURCE_BINDING_PATCHES", "SHADER_OPERATIONS_PATCHES" >>
        ue5_patches == << "NANITE_PATCHES", "LUMEN_PATCHES",
                          "VIRTUAL_SHADOW_MAPS_PATCHES", "TEXTURE_STREAMING_PATCHES" >>
    IN CASE profile = "standard" -> base_patches
         [] profile = "ue5"      -> base_patches \o ue5_patches
         [] profile = "maximum"  -> base_patches \o ue5_patches \o <<"RENDERING_FEATURES_PATCHES">>
         [] OTHER -> base_patches

\* scripts/patcher.py _get_patches
get_patches(profile) ==
    LET base == << "SM_P", "WV_P", "RB_P", "SO_P" >>
        ext == << "MS_P", "RT_P", "SF_P", "TX_P" >>
    IN CASE profile = "p3" -> base
         [] profile = "p7" -> base \o ext
         [] profile = "p9" -> base \o ext \o <<"RN_P">>
         [] OTHER -> base

Unit(path, set) == [path |-> path, set |-> set]

\* [Unit(f, s) for s in sets]
RECURSIVE UnitsOf(_, _)
UnitsOf(path, sets) ==
    IF sets = <<>> THEN <<>> ELSE <<Unit(path, Head(sets))>> \o UnitsOf(path, Tail(sets))

\* for f in files: the units per_file[f], concatenated
RECURSIVE ForEachFile(_, _)
ForEachFile(files, per_file) ==
    IF files = <<>> THEN <<>>
    ELSE per_file[Head(files)] \o ForEachFile(Tail(files), per_file)

\* performance.py apply_all: the `tasks` list
PerformanceTasks(c, tree) ==
    LET dev == [f \in tree |-> UnitsOf(f, << "CAPABILITY_PATCHES", "DESCRIPTOR_CACHE_PATCHES",
                                "COMMAND_BATCH_PATCHES", "BARRIER_OPT_PATCHES",
                                "PIPELINE_CACHE_PATCHES", "TURNIP_PATCHES", "DXR_PATCHES" >>)]
        cpu_patches == IF c.arch = "x86_64" THEN "CPU_X86_64_PATCHES" ELSE "CPU_ARM64EC_PATCHES"
        cpu == [f \in tree |-> <<Unit(f, cpu_patches)>>]
        perf == [f \in tree |-> <<Unit(f, "PERFORMANCE_PATCHES")>>]
    IN ForEachFile(DeviceFiles(tree), dev) \o ForEachFile(AllFiles(tree), cpu)
       \o ForEachFile(AllFiles(tree), perf)

\* patcher.py apply_all: the calls of _apply_patches_to_file, in order
PatcherTasks(c, tree) ==
    LET cap == [f \in tree |-> UnitsOf(f, get_patches_for_profile(c.profile))
                  \o (IF c.gpu_spoof THEN <<Unit(f, "GPU_SPOOF_PATCHES")>> ELSE <<>>)]
        cpu_patches == IF c.arch = "x86_64" THEN "PATCHER_CPU_X86_64_PATCHES"
                       ELSE "PATCHER_CPU_ARM64EC_PATCHES"
        both == [f \in tree |-> <<Unit(f, cpu_patches), Unit(f, "PATCHER_PERFORMANCE_PATCHES")>>]
    IN ForEachFile(CapabilityFiles(tree), cap) \o ForEachFile(AllCFiles(tree), both)

\* scripts/patcher.py apply: the calls of _apply_file, in order
ScriptsTasks(c, tree) ==
    LET cap == [f \in tree |-> UnitsOf(f, get_patches(c.profile))
                  \o (IF c.gpu_spoof THEN <<Unit(f, "GPU_P")>> ELSE <<>>)]
    IN ForEachFile(find_files(find_vkd3d(tree), "device.c", tree), cap)

BuildTaskList(c, tree) ==
    CASE c.variant = "performance" -> PerformanceTasks(c, tree)
      [] c.variant = "patches"     -> PatcherTasks(c, tree)
      [] c.variant = "scripts"     -> ScriptsTasks(c, tree)

---------------------------------------------------------------------------
(* Bounds and inputs *)

MaxPasses == 2      \* invocations of the program on the same tree
PoolSize == 2       \* the worker count N > 1 of the pool (besides 1)

DeviceText ==
    << Asgn(<<RBT>>, "D3D12_RESOURCE_BINDING_TIER_1"),
       Asgn(<<RTT>>, "D3D12_RAYTRACING_TIER_1_0"),
       Struct("d3d12_descriptor_heap"),
       Define("VKD3D_DEBUG", "1") >>
\* a chained assignment and a second assignment to the same field
ChainText ==
    << Asgn(<<RBT, TRT>>, "tier"),
       Asgn(<<RBT>>, "D3D12_RESOURCE_BINDING_TIER_1") >>
PlainText == << Word("static int refcount;") >>
CpuText == << Define("VKD3D_ENABLE_AVX", "0"), Call("vkd3d_cpu_supports_avx") >>

FaultKinds == {"ok", "missing", "unreadable", "unwritable"}

Scenario(d, f) == [disk |-> d, fault |-> f]

Scenarios ==
    { Scenario(P_DEVICE :> DeviceText, P_DEVICE :> x) : x \in FaultKinds }
    \cup { Scenario(P_DEVICE :> t, P_DEVICE :> "ok") : t \in {ChainText, PlainText} }
    \cup { Scenario(P_DEVICE :> DeviceText @@ P_DXGI :> CpuText,
                    P_DEVICE :> "ok" @@ P_DXGI :> x) : x \in FaultKinds }

\* the trees explored with more than one worker
PoolScenarios ==
    { Scenario(P_DEVICE :> DeviceText, P_DEVICE :> x) : x \in {"ok", "unwritable"} }
    \cup { Scenario(P_DEVICE :> ChainText, P_DEVICE :> "ok") }

Config(variant, arch, profile, gpu_spoof, dry_run, max_workers) ==
    [variant |-> variant, arch |-> arch, profile |-> profile, gpu_spoof |-> gpu_spoof,
     dry_run |-> dry_run, max_workers |-> max_workers]

\* one worker at a time: the sequential programs, and the pool on a host with one CPU
SerialConfigs ==
    { Config("performance", a, "", FALSE, d, 1) : a \in {"x86_64", "arm64ec"}, d \in BOOLEAN }
    \cup { Config("patches", a, p, g, d, 1) :
             a \in {"x86_64", "arm64ec"}, p \in {"standard", "ue5", "maximum"},
             g \in BOOLEAN, d \in BOOLEAN }
    \cup { Config("scripts", "", p, g, d, 1) :
             p \in {"p3", "p7", "p9"}, g \in BOOLEAN, d \in BOOLEAN }

PoolConfigs ==
    { Config("performance", "x86_64", "", FALSE, d, PoolSize) : d \in BOOLEAN }

---------------------------------------------------------------------------
(* State *)

\* PatchResult(); scripts: self.applied, self.skipped, self.failed, self.errors, self.details
PatchResult == [applied |-> 0, skipped |-> 0, failed |-> 0, errors |-> <<>>, details |-> <<>>]

\* The locals of a unit that has not run.
QueuedUnit ==
    [st |-> "queued", content |-> <<>>, original |-> <<>>, applied |-> 0, skipped |-> 0,
     errors |-> <<>>, details |-> <<>>, found |-> <<>>]

Tree == DOMAIN disk

Init ==
    /\ \/ cfg \in SerialConfigs
          /\ \E s \in Scenarios : disk = s.disk /\ disk0 = s.disk /\ fault = s.fault
       \/ cfg \in PoolConfigs
          /\ \E s \in PoolScenarios : disk = s.disk /\ disk0 = s.disk /\ fault = s.fault
    /\ writes = [p \in DOMAIN disk |-> 0]
    /\ pass = 1
    /\ prev = {}
    /\ pc = "start"
    /\ validated = <<>>
    /\ tasks = <<>>
    /\ units = <<>>
    /\ completed = <<>>
    /\ result = PatchResult
    /\ exit_status = -1

\* FORBIDDEN_TYPES scan of one rule set: the warnings it yields
FORBIDDEN_TYPES == {"pthread_rwlock_t", "pthread_spinlock_t", "pthread_barrier_t"}
validate_patches(patches) ==
    SelectSeq(patches, LAMBDA r : r.to \in FORBIDDEN_TYPES)

\* performance.py apply_all, lines 224-232: every set of all_patch_sets is validated
ValidateAll ==
    /\ pc = "start"
    /\ cfg.variant = "performance"
    /\ validated' = << "CAPABILITY_PATCHES", "DESCRIPTOR_CACHE_PATCHES", "COMMAND_BATCH_PATCHES",
                       "BARRIER_OPT_PATCHES", "PIPELINE_CACHE_PATCHES", "TURNIP_PATCHES",
                       "PERFORMANCE_PATCHES", "DXR_PATCHES" >>
    /\ pc' = "resolve"
    /\ UNCHANGED <<cfg, fault, disk, disk0, writes, pass, prev, tasks, units, completed, result, exit_status>>

\* apply_all / apply: resolve the files, build the units (performance: submit them)
BuildTasks ==
    /\ \/ pc = "resolve"
       \/ pc = "start" /\ cfg.variant # "performance"
    /\ tasks' = BuildTaskList(cfg, Tree)
    /\ units' = [i \in 1..Len(tasks') |-> QueuedUnit]
    /\ pc' = "run"
    /\ UNCHANGED <<cfg, fault, disk, disk0, writes, pass, prev, validated, completed, result, exit_status>>

---------------------------------------------------------------------------
(* One unit: _apply_patches_to_file / _apply_file *)

\* A unit of the sequential programs has folded its results into the run
\* result when it returns; a unit of the pool hands them to its future.
Returned == IF cfg.variant = "scripts" THEN "merged" ELSE "finished"

\* A unit that returns hands its result to its future, which joins the
\* finished futures the main thread has still to take.
Handed(i, st) == IF st = "finished" THEN Append(completed, i) ELSE completed

\* A worker is busy while its unit is between its read and its return.
Busy(i) == units[i].st \in {"open", "writing"}

\* (variant: no unit starts once a unit has recorded an error)
CanStartUnlessSiblingFailed(i) ==
    /\ i \in 1..Len(tasks)
    /\ units[i].st = "queued"
    /\ \A j \in 1..(i-1) : units[j].st # "queued"
    /\ IF cfg.variant = "performance"
       THEN Cardinality({j \in 1..Len(tasks) : Busy(j)}) < cfg.max_workers
       ELSE \A j \in 1..(i-1) : units[j].st = "merged"
    /\ result.errors = <<>>
    /\ \A j \in 1..Len(tasks) : units[j].errors = <<>>

\* The pool takes units in submission order while a worker is idle; the
\* sequential programs run a unit to its end before the next.
CanStart(i) ==
    /\ i \in 1..Len(tasks)
    /\ units[i].st = "queued"
    /\ \A j \in 1..(i-1) : units[j].st # "queued"
    /\ IF cfg.variant = "performance"
       THEN Cardinality({j \in 1..Len(tasks) : Busy(j)}) < cfg.max_workers
       ELSE \A j \in 1..(i-1) : units[j].st = "merged"

\* scripts: _apply_file adds to the object's fields directly
AddDirect(res, applied, skipped, errors, details, failed) ==
    [res EXCEPT !.applied = @ + applied, !.skipped = @ + skipped,
                !.errors = @ \o errors, !.details = @ \o details,
                !.failed = @ + failed]

\* (variant: without the os.path.exists test a missing file fails in open)
ReadOutcomeWithoutExistsTest(path) ==
    IF fault[path] \in {"missing", "unreadable"} THEN "error" ELSE "text"

\* `if not os.path.exists(filepath): return ...`, then open and read:
\* "absent" (early return), "error" (the except branch) or "text".
ReadOutcome(path) ==
    CASE fault[path] = "missing"    -> "absent"
      [] fault[path] = "unreadable" -> "error"
      [] OTHER                      -> "text"

\* Entry of the unit up to the end of the rule loop: the existence test,
\* the read and the rules.
StartUnit(i) ==
    /\ pc = "run"
    /\ CanStart(i)
    /\ LET path == tasks[i].path
           v == cfg.variant
       IN CASE ReadOutcome(path) = "absent" ->
                 /\ units' = [units EXCEPT ![i].st = Returned]
                 /\ UNCHANGED result
            [] ReadOutcome(path) = "error" ->
                 /\ units' = [units EXCEPT ![i].st = Returned,
                                 ![i].errors = IF v = "scripts" THEN <<>>
                                               ELSE <<ReadError(v, path)>>]
                 /\ result' = IF v = "scripts"
                              THEN AddDirect(result, 0, 0, <<ReadError(v, path)>>, <<>>, 0)
                              ELSE result
            [] OTHER ->
                 LET original == disk[path]
                     acc == ApplyRules(LoopStart(original), PatchSet(tasks[i].set),
                                       cfg.dry_run, v, path)
                     write == MustWrite(acc.content, original, cfg.dry_run)
                     details == IF acc.changes # <<>>
                                THEN <<Detail(v, path, acc.changes)>> ELSE <<>>
                 IN /\ units' = [units EXCEPT ![i] =
                          [st |-> IF write THEN "open" ELSE Returned,
                           content |-> IF write THEN acc.content ELSE <<>>,
                           original |-> original,
                           applied |-> IF v = "scripts" THEN 0 ELSE acc.applied,
                           skipped |-> IF v = "scripts" THEN 0 ELSE acc.skipped,
                           errors |-> IF v = "scripts" THEN <<>> ELSE acc.errors,
                           details |-> IF v = "scripts" THEN <<>> ELSE details,
                           found |-> acc.found]]
                    /\ result' = IF v = "scripts"
                                 THEN AddDirect(result, acc.applied, acc.skipped,
                                                acc.errors, details, 0)
                                 ELSE result
    /\ completed' = Handed(i, units'[i].st)
    /\ UNCHANGED <<cfg, fault, disk, disk0, writes, pass, prev, pc, validated, tasks, exit_status>>

\* open(filepath, 'w'): truncates the file, or raises
OpenForWrite(i) ==
    /\ pc = "run"
    /\ i \in 1..Len(tasks)
    /\ units[i].st = "open"
    /\ LET path == tasks[i].path
           v == cfg.variant
       IN IF fault[path] = "unwritable"
          THEN /\ units' = [units EXCEPT ![i].st = Returned, ![i].content = <<>>,
                               ![i].errors = IF v = "scripts" THEN @
                                             ELSE Append(@, WriteError(v, path))]
               /\ result' = IF v = "scripts"
                            THEN AddDirect(result, 0, 0, <<WriteError(v, path)>>, <<>>, 1)
                            ELSE result
               /\ UNCHANGED <<disk, writes>>
          ELSE /\ disk' = [disk EXCEPT ![path] = <<>>]
               /\ writes' = [writes EXCEPT ![path] = @ + 1]
               /\ units' = [units EXCEPT ![i].st = "writing"]
               /\ UNCHANGED result
    /\ completed' = Handed(i, units'[i].st)
    /\ UNCHANGED <<cfg, fault, disk0, pass, prev, pc, validated, tasks, exit_status>>

\* What a file holds after text is written from offset 0 over what it held.
Overlay(text, old) == text \o SubSeq(old, Len(text) + 1, Len(old))

\* f.write(content) and the close that flushes it
FlushWrite(i) ==
    /\ pc = "run"
    /\ i \in 1..Len(tasks)
    /\ units[i].st = "writing"
    /\ disk' = [disk EXCEPT ![tasks[i].path] = Overlay(units[i].content, @)]
    /\ units' = [units EXCEPT ![i].st = Returned, ![i].content = <<>>]
    /\ completed' = Handed(i, Returned)
    /\ UNCHANGED <<cfg, fault, disk0, writes, pass, prev, pc, validated, tasks, result, exit_status>>

---------------------------------------------------------------------------
(* Aggregation and the end of the run *)

\* (variant: `=` in place of `+=` on the applied counter)
accumulate_result_overwriting(res, applied, skipped, errors, details) ==
    [res EXCEPT !.applied = applied, !.skipped = @ + skipped,
                !.errors = @ \o errors, !.details = @ \o details]

\* performance.py lines 267-271 (under self._lock); patcher.py _accumulate_result
accumulate_result(res, applied, skipped, errors, details) ==
    [res EXCEPT !.applied = @ + applied, !.skipped = @ + skipped,
                !.errors = @ \o errors, !.details = @ \o details]

\* (variant: the merge adds the counters and leaves the lists for later)
MergeCountersOnly ==
    /\ pc = "run"
    /\ completed # <<>>
    /\ LET i == Head(completed)
       IN /\ result' = [result EXCEPT !.applied = @ + units[i].applied,
                                      !.skipped = @ + units[i].skipped]
          /\ units' = [units EXCEPT ![i].st = "merged", ![i].applied = 0, ![i].skipped = 0]
    /\ completed' = Tail(completed)
    /\ UNCHANGED <<cfg, fault, disk, disk0, writes, pass, prev, pc, validated, tasks, exit_status>>

\* as_completed yields the oldest finished future and its result is merged;
\* patcher.py: the result of the call just made is accumulated
Merge ==
    /\ pc = "run"
    /\ completed # <<>>
    /\ LET i == Head(completed)
       IN /\ result' = accumulate_result(result, units[i].applied, units[i].skipped,
                                         units[i].errors, units[i].details)
          /\ units' = [units EXCEPT ![i].st = "merged", ![i].applied = 0, ![i].skipped = 0,
                                    ![i].errors = <<>>, ![i].details = <<>>]
    /\ completed' = Tail(completed)
    /\ UNCHANGED <<cfg, fault, disk, disk0, writes, pass, prev, pc, validated, tasks, exit_status>>

\* (variant: the status does not look at the errors)
ExitStatusIgnoringErrors(variant, res) == 0

\* `return 1 if self.result.errors else 0`;
\* scripts: `return self.failed == 0 and len(self.errors) == 0`, main: 0 if success else 1
ExitStatus(variant, res) ==
    IF variant = "scripts"
    THEN (IF res.failed = 0 /\ Len(res.errors) = 0 THEN 0 ELSE 1)
    ELSE (IF res.errors # <<>> THEN 1 ELSE 0)

Finish ==
    /\ pc = "run"
    /\ \A i \in 1..Len(tasks) : units[i].st = "merged"
    /\ exit_status' = ExitStatus(cfg.variant, result)
    /\ pc' = "done"
    /\ UNCHANGED <<cfg, fault, disk, disk0, writes, pass, prev, validated, tasks, units, completed, result>>

\* The (path, rule) pairs for which a unit of this run found a match.
MatchedPairs ==
    UNION { { <<tasks[i].path, PatchSet(tasks[i].set)[r].name>> :
                r \in { q \in 1..Len(units[i].found) : units[i].found[q] > 0 } } :
            i \in 1..Len(tasks) }

\* main() is run again on the tree the last run left: a fresh patcher object.
\* (Second invocations are explored for the runs that use one worker.)
Rerun ==
    /\ pc = "done"
    /\ pass < MaxPasses
    /\ cfg.max_workers = 1
    /\ pass' = pass + 1
    /\ prev' = MatchedPairs
    /\ disk0' = disk
    /\ writes' = [p \in DOMAIN disk |-> 0]
    /\ pc' = "start"
    /\ validated' = <<>>
    /\ tasks' = <<>>
    /\ units' = <<>>
    /\ completed' = <<>>
    /\ result' = PatchResult
    /\ exit_status' = -1
    /\ UNCHANGED <<cfg, fault, disk>>

Next ==
    \/ ValidateAll
    \/ BuildTasks
    \/ \E i \in 1..Len(tasks) : StartUnit(i)
    \/ \E i \in 1..Len(tasks) : OpenForWrite(i)
    \/ \E i \in 1..Len(tasks) : FlushWrite(i)
    \/ Merge
    \/ Finish
    \/ Rerun

Spec == Init /\ [][Next]_vars

\* One invocation of the program.
RunNext ==
    \/ ValidateAll
    \/ BuildTasks
    \/ \E i \in 1..Len(tasks) : StartUnit(i)
    \/ \E i \in 1..Len(tasks) : OpenForWrite(i)
    \/ \E i \in 1..Len(tasks) : FlushWrite(i)
    \/ Merge
    \/ Finish

\* The executor runs every submitted unit to its end and the main thread
\* stays in its loops until they finish: a step that can be taken is taken.
\* The pool runs explored for termination: a file whose units record write
\* errors, and a file that one unit rewrites.
FairPoolScenarios ==
    { Scenario(P_DEVICE :> DeviceText, P_DEVICE :> "unwritable"),
      Scenario(P_DEVICE :> ChainText, P_DEVICE :> "ok") }

FairSerialConfigs ==
    { c \in SerialConfigs : /\ c.profile \in {"", "standard", "p3"}
                            /\ ~c.gpu_spoof
                            /\ c.arch \in {"", "x86_64"} }

FairInit ==
    /\ \/ cfg \in FairSerialConfigs
          /\ \E s \in Scenarios : disk = s.disk /\ disk0 = s.disk /\ fault = s.fault
       \/ cfg \in PoolConfigs
          /\ \E s \in FairPoolScenarios : disk = s.disk /\ disk0 = s.disk /\ fault = s.fault
    /\ writes = [p \in DOMAIN disk |-> 0]
    /\ pass = 1
    /\ prev = {}
    /\ pc = "start"
    /\ validated = <<>>
    /\ tasks = <<>>
    /\ units = <<>>
    /\ completed = <<>>
    /\ result = PatchResult
    /\ exit_status = -1

FairSpec == FairInit /\ [][RunNext]_vars /\ WF_vars(RunNext)

---------------------------------------------------------------------------
(* The run on a rule list under edit *)

\* The text the edited lists are run on.
OtherText == << Asgn(<<RTT>>, "D3D12_RAYTRACING_TIER_1_0"), Word("static int refcount;") >>

EditedScenarios ==
    { Scenario(P_DEVICE :> DeviceText, P_DEVICE :> x) : x \in {"ok", "unwritable"} }
    \cup { Scenario(P_DEVICE :> t, P_DEVICE :> "ok") : t \in {ChainText, PlainText, OtherText} }

EditedConfigs ==
    { Config("performance", "x86_64", "", FALSE, d, 1) : d \in BOOLEAN }
    \cup { Config("patches", "x86_64", "standard", FALSE, d, 1) : d \in BOOLEAN }
    \cup { Config("scripts", "", "p3", FALSE, d, 1) : d \in BOOLEAN }

EditedInit ==
    /\ cfg \in EditedConfigs
    /\ \E s \in EditedScenarios : disk = s.disk /\ disk0 = s.disk /\ fault = s.fault
    /\ writes = [p \in DOMAIN disk |-> 0]
    /\ pass = 1
    /\ prev = {}
    /\ pc = "start"
    /\ validated = <<>>
    /\ tasks = <<>>
    /\ units = <<>>
    /\ completed = <<>>
    /\ result = PatchResult
    /\ exit_status = -1

\* The shipped list that follows the edited one in each program's unit list.
NextShipped(variant) ==
    CASE variant = "performance" -> "DXR_PATCHES"
      [] variant = "patches"     -> "PATCHER_PERFORMANCE_PATCHES"
      [] variant = "scripts"     -> "RT_P"

\* apply_all / apply with an edited list among the lists of the capability
\* file: the units of that file, the edited list first or second.
BuildEditedTasks ==
    /\ pc = "start"
    /\ \E s \in {"MALFORMED_PATTERN_PATCHES", "MALFORMED_TEMPLATE_PATCHES"} :
          tasks' \in { << Unit(P_DEVICE, s), Unit(P_DEVICE, NextShipped(cfg.variant)) >>,
                       << Unit(P_DEVICE, NextShipped(cfg.variant)), Unit(P_DEVICE, s) >> }
    /\ units' = [i \in 1..Len(tasks') |-> QueuedUnit]
    /\ pc' = "run"
    /\ UNCHANGED <<cfg, fault, disk, disk0, writes, pass, prev, validated, completed, result, exit_status>>

EditedNext ==
    \/ BuildEditedTasks
    \/ \E i \in 1..Len(tasks) : StartUnit(i)
    \/ \E i \in 1..Len(tasks) : OpenForWrite(i)
    \/ \E i \in 1..Len(tasks) : FlushWrite(i)
    \/ Merge
    \/ Finish

EditedSpec == EditedInit /\ [][EditedNext]_vars

---------------------------------------------------------------------------
(* The run on source trees of different layouts *)

LayoutPaths == {P_DEVICE, P_DXGI, P_UTILS, P_TESTS_DEVICE, P_SRC_DEVICE}

\* The text of a file of the layouts.
LayoutText(p) == IF Basename(p) = "device.c" THEN DeviceText ELSE PlainText

LayoutConfigs ==
    { Config("performance", "x86_64", "", FALSE, d, 1) : d \in BOOLEAN }
    \cup { Config("patches", "x86_64", "standard", FALSE, d, 1) : d \in BOOLEAN }
    \cup { Config("scripts", "", "p3", FALSE, d, 1) : d \in BOOLEAN }

\* Every non-empty tree over the layout paths, all files readable and writable.
LayoutInit ==
    /\ cfg \in LayoutConfigs
    /\ \E t \in (SUBSET LayoutPaths) \ {{}} :
          /\ disk = [p \in t |-> LayoutText(p)]
          /\ fault = [p \in t |-> "ok"]
    /\ disk0 = disk
    /\ writes = [p \in DOMAIN disk |-> 0]
    /\ pass = 1
    /\ prev = {}
    /\ pc = "start"
    /\ validated = <<>>
    /\ tasks = <<>>
    /\ units = <<>>
    /\ completed = <<>>
    /\ result = PatchResult
    /\ exit_status = -1

LayoutSpec == LayoutInit /\ [][RunNext]_vars

---------------------------------------------------------------------------
(* Auxiliary definitions for the properties *)

Done == pc = "done"
UnitIds == 1..Len(tasks)
UnitsOn(p) == { i \in UnitIds : tasks[i].path = p }
RulesOf(i) == PatchSet(tasks[i].set)

\* The match count unit i found for its r-th rule; -1 when it found none
\* (the unit has not run, its file was missing or unreadable, or the rule raised).
Found(i, r) == IF r <= Len(units[i].found) THEN units[i].found[r] ELSE -1

\* The (unit, rule) pairs of the unit set.
Pairs == UNION { { <<i, r>> : r \in 1..Len(RulesOf(i)) } : i \in UnitIds }

RECURSIVE SumOver(_, _)
SumOver(S, f) ==
    IF S = {} THEN 0
    ELSE LET x == CHOOSE y \in S : TRUE IN f[x] + SumOver(S \ {x}, f)

\* Sum over all pairs of the matches found.
TotalFound ==
    SumOver(Pairs, [pr \in Pairs |-> IF Found(pr[1], pr[2]) > 0 THEN Found(pr[1], pr[2]) ELSE 0])

HasMatch(p) == \E pr \in Pairs : tasks[pr[1]].path = p /\ Found(pr[1], pr[2]) > 0

Range(s) == { s[i] : i \in DOMAIN s }
Count(x, s) == Cardinality({ i \in DOMAIN s : s[i] = x })
\* two lists are equal once order-normalized
SameUpToOrder(s, t) ==
    /\ Len(s) = Len(t)
    /\ \A x \in Range(s) \cup Range(t) : Count(x, s) = Count(x, t)

\* What one unit does to the tree d and returns when no other unit runs
\* between its read and its write.
UnitAlone(d, t) ==
    LET path == t.path
        v == cfg.variant
        none == [disk |-> d, applied |-> 0, skipped |-> 0, errors |-> <<>>, details |-> <<>>]
    IN CASE ReadOutcome(path) = "absent" -> none
         [] ReadOutcome(path) = "error" -> [none EXCEPT !.errors = <<ReadError(v, path)>>]
         [] OTHER ->
              LET acc == ApplyRules(LoopStart(d[path]), PatchSet(t.set), cfg.dry_run, v, path)
                  write == MustWrite(acc.content, d[path], cfg.dry_run)
                  failed == write /\ fault[path] = "unwritable"
              IN [disk |-> IF write /\ ~failed THEN [d EXCEPT ![path] = acc.content] ELSE d,
                  applied |-> acc.applied,
                  skipped |-> acc.skipped,
                  errors |-> acc.errors \o (IF failed THEN <<WriteError(v, path)>> ELSE <<>>),
                  details |-> IF acc.changes # <<>>
                              THEN <<Detail(v, path, acc.changes)>> ELSE <<>>]

\* The run of the unit list ts by a pool of one worker: each unit alone, in
\* submission order.
RECURSIVE OneWorkerRun(_, _, _)
OneWorkerRun(ts, d, res) ==
    IF ts = <<>> THEN [disk |-> d, result |-> res]
    ELSE LET u == UnitAlone(d, Head(ts))
         IN IF u.disk = d /\ u.applied = 0 /\ u.skipped = 0 /\ u.errors = <<>>
            THEN OneWorkerRun(Tail(ts), d, res)    \* the unit returned its empty locals
            ELSE OneWorkerRun(Tail(ts), u.disk,
                              accumulate_result(res, u.applied, u.skipped, u.errors, u.details))

\* The model's one-worker runs end as OneWorkerRun says.
OneWorkerRunAgrees ==
    (Done /\ cfg.variant # "scripts" /\ cfg.max_workers = 1) =>
        LET r == OneWorkerRun(tasks, disk0, PatchResult)
        IN r.disk = disk /\ r.result = result

---------------------------------------------------------------------------
(* Properties *)

\* C1: in dry-run mode no file is ever written: at every point of the run
\* every file holds what it held when the run started, and no file has been
\* opened for writing.
DryRunNeverWrites ==
    cfg.dry_run => (disk = disk0 /\ \A p \in Tree : writes[p] = 0)

\* A dry run that found matches has finished.
DryRunWitness == Done /\ cfg.dry_run /\ result.applied > 0

\* C2: a unit that read a file's initial content reports, per rule, the
\* match counts that the same unit reports on that content in the other
\* mode (dry-run against apply).
DryRunReportsSameCounts ==
    \A i \in UnitIds :
        (pass = 1 /\ units[i].found # <<>> /\ units[i].original = disk0[tasks[i].path]) =>
            units[i].found =
                ApplyRules(LoopStart(units[i].original), RulesOf(i), ~cfg.dry_run,
                           cfg.variant, tasks[i].path).found

\* C3: a finished run of the pool reports the counters, and up to order the
\* change and error lists, that a pool of one worker reports on the same
\* tree and unit list.
PoolSizeDoesNotMatter ==
    (Done /\ cfg.variant = "performance" /\ pass = 1) =>
        LET one == OneWorkerRun(tasks, disk0, PatchResult).result
        IN /\ result.applied = one.applied
           /\ result.skipped = one.skipped
           /\ SameUpToOrder(result.details, one.details)
           /\ SameUpToOrder(result.errors, one.errors)

\* C4: in the second of two apply runs, a capability assignment rule that
\* matched and rewrote a file in the first run finds no match in that file.
SecondPassFindsNoMatch ==
    (Done /\ pass = 2 /\ ~cfg.dry_run) =>
        \A pr \in Pairs :
            LET i == pr[1]
                rule == RulesOf(i)[pr[2]]
            IN (rule.kind = "assign" /\ fault[tasks[i].path] = "ok"
                /\ <<tasks[i].path, rule.name>> \in prev)
               => Found(i, pr[2]) = 0

\* C5: in the second of two apply runs, every rule that matched in a file
\* in the first run either finds no match in that file or the second run
\* leaves the file's content as it found it.
SecondPassIsNoOp ==
    (Done /\ pass = 2 /\ ~cfg.dry_run) =>
        \A pr \in Pairs :
            LET i == pr[1]
                path == tasks[i].path
            IN (fault[path] = "ok" /\ <<path, RulesOf(i)[pr[2]].name>> \in prev)
               => (Found(i, pr[2]) = 0 \/ disk[path] = disk0[path])

\* C6: a file in which no rule of any unit has found a match has not been
\* opened for writing and holds what it held when the run started.
NoMatchNoWrite ==
    \A p \in Tree : ~HasMatch(p) => (writes[p] = 0 /\ disk[p] = disk0[p])

\* An apply run has finished in which every unit of a readable file ran
\* its rules and none matched.
NoMatchWitness ==
    /\ Done /\ ~cfg.dry_run
    /\ \E p \in Tree : /\ ~HasMatch(p)
                        /\ UnitsOn(p) # {}
                        /\ \A i \in UnitsOn(p) : units[i].found # <<>>

\* C7: when the run has finished, the applied counter is the sum over all
\* (unit, rule) pairs of the match count found for the pair.
AppliedIsSumOfMatches == Done => result.applied = TotalFound

\* A finished run whose matches come from several units, one of them with
\* two matches of one rule.
AppliedWitness ==
    /\ Done /\ result.applied >= 3
    /\ \E pr \in Pairs : Found(pr[1], pr[2]) = 2
    /\ Cardinality({ pr[1] : pr \in { q \in Pairs : Found(q[1], q[2]) > 0 } }) >= 2

\* C8 as stated: when the run has finished, the skipped counter is the
\* number of (unit, rule) pairs for which no match was found, those of
\* missing and unreadable files included.
SkippedCountsEveryPairWithoutMatch ==
    Done => result.skipped = Cardinality({ pr \in Pairs : Found(pr[1], pr[2]) <= 0 })

\* C8 as amended: when the run has finished, the skipped counter is the
\* number of (unit, rule) pairs whose rule was evaluated on the text read
\* from the file and found zero matches; the pairs of a missing or
\* unreadable file add nothing.
SkippedCountsEvaluatedPairsWithoutMatch ==
    Done => result.skipped = Cardinality({ pr \in Pairs : Found(pr[1], pr[2]) = 0 })

\* A finished run with skipped rules and a unit whose file was missing or
\* unreadable.
SkippedWitness ==
    /\ Done /\ result.skipped > 0
    /\ \E i \in UnitIds : fault[tasks[i].path] \in {"missing", "unreadable"}

\* C9: when the run has finished, the change list holds one record per
\* file with a match, and the records of two different files differ in the
\* fields that identify the file.
OneChangeRecordPerFile ==
    Done =>
        /\ Len(result.details) = Cardinality({ p \in Tree : HasMatch(p) })
        /\ \A p, q \in Tree :
              (p # q /\ HasMatch(p) /\ HasMatch(q)) =>
                  Detail(cfg.variant, p, <<>>) # Detail(cfg.variant, q, <<>>)

\* C10: when the run has finished, the exit status is 0 exactly if the
\* error list is empty, and a non-zero failed counter comes with an error.
ExitStatusIffNoErrors ==
    Done => /\ (exit_status = 0 <=> result.errors = <<>>)
            /\ (result.failed > 0 => result.errors # <<>>)

\* Finished runs with a recorded error.
ExitStatusWitness == Done /\ exit_status = 1 /\ result.errors # <<>>

---------------------------------------------------------------------------
(* Error handling of the units *)

\* The buffer unit i had after its rule loop.
BufferOf(i) ==
    ApplyRules(LoopStart(units[i].original), RulesOf(i), cfg.dry_run, cfg.variant,
               tasks[i].path)

\* Unit i ran its rules and went on to open its file for writing.
TriedWrite(i) ==
    /\ units[i].found # <<>>
    /\ BufferOf(i).content # units[i].original
    /\ ~cfg.dry_run

ErrorsOf(kind, p) == { n \in DOMAIN result.errors :
                         result.errors[n].kind = kind /\ result.errors[n].file = p }

\* C11: when the run has finished, every file that cannot be written has
\* one write error per unit that tried to write it, the matches and the
\* change record of such a unit are in the result, every unit of the run
\* has run and been merged, and the exit status is 1.
WriteFailureKeepsTallies ==
    Done =>
        \A i \in UnitIds :
            (fault[tasks[i].path] = "unwritable" /\ TriedWrite(i)) =>
                /\ Cardinality(ErrorsOf("write", tasks[i].path))
                      = Cardinality({ j \in UnitsOn(tasks[i].path) : TriedWrite(j) })
                /\ result.applied = TotalFound
                /\ \E n \in DOMAIN result.details :
                      /\ result.details[n].file = Basename(tasks[i].path)
                      /\ result.details[n].changes = BufferOf(i).changes
                /\ \A j \in UnitIds :
                      /\ units[j].st = "merged"
                      /\ fault[tasks[j].path] \in {"ok", "unwritable"} => units[j].found # <<>>
                /\ disk[tasks[i].path] = disk0[tasks[i].path]
                /\ exit_status = 1

\* A finished run in which a unit failed to write one file and units of
\* another file matched and wrote.
WriteFailureWitness ==
    /\ Done
    /\ \E i, j \in UnitIds :
          /\ fault[tasks[i].path] = "unwritable" /\ TriedWrite(i)
          /\ tasks[j].path # tasks[i].path /\ TriedWrite(j)
          /\ disk[tasks[j].path] # disk0[tasks[j].path]

\* The units that found a match: each emits one change record.
UnitsWithMatch == { i \in UnitIds : \E r \in 1..Len(units[i].found) : units[i].found[r] > 0 }

\* C12: when the run has finished, every unreadable file has one read error
\* per unit that targets it and has not been written, the counters and the
\* change list hold what the units that read their files found and nothing
\* else, every unit has been merged, the units of the readable files have
\* run their rules, and the exit status is 1.
ReadFailureAbortsOnlyItsUnit ==
    Done =>
        \A p \in Tree :
            (fault[p] = "unreadable" /\ UnitsOn(p) # {}) =>
                /\ Cardinality(ErrorsOf("read", p)) = Cardinality(UnitsOn(p))
                /\ ErrorsOf("write", p) = {} /\ ErrorsOf("regex", p) = {}
                /\ writes[p] = 0 /\ disk[p] = disk0[p]
                /\ \A i \in UnitsOn(p) : units[i].found = <<>>
                /\ result.applied = TotalFound
                /\ result.skipped = Cardinality({ pr \in Pairs : Found(pr[1], pr[2]) = 0 })
                /\ Len(result.details) = Cardinality(UnitsWithMatch)
                /\ \A j \in UnitIds :
                      /\ units[j].st = "merged"
                      /\ fault[tasks[j].path] \in {"ok", "unwritable"} => units[j].found # <<>>
                /\ exit_status = 1

\* A finished run with units of an unreadable file and a unit of another
\* file that found matches and wrote them.
ReadFailureWitness ==
    /\ Done
    /\ \E i, j \in UnitIds :
          /\ fault[tasks[i].path] = "unreadable"
          /\ tasks[j].path # tasks[i].path /\ TriedWrite(j)
          /\ disk[tasks[j].path] # disk0[tasks[j].path]
          /\ i < j

\* C13: when the run has finished, a missing file that units target has no
\* error of any kind, has not been opened for writing, its units have
\* contributed no match, no skip and no change record, and the exit status
\* is 0 exactly if no unit of another file recorded an error.
MissingFileIsSilent ==
    Done =>
        \A p \in Tree :
            (fault[p] = "missing" /\ UnitsOn(p) # {}) =>
                /\ \A n \in DOMAIN result.errors : result.errors[n].file # p
                /\ writes[p] = 0 /\ disk[p] = disk0[p]
                /\ \A i \in UnitsOn(p) : units[i].found = <<>> /\ units[i].st = "merged"
                /\ result.applied = TotalFound
                /\ result.skipped = Cardinality({ pr \in Pairs : Found(pr[1], pr[2]) = 0 })
                /\ Len(result.details) = Cardinality(UnitsWithMatch)
                /\ exit_status = (IF \E n \in DOMAIN result.errors : result.errors[n].file # p
                                  THEN 1 ELSE 0)

\* A finished run with units of a missing file, between units of another
\* file that found matches.
MissingFileWitness ==
    /\ Done
    /\ \E i, j, k \in UnitIds :
          /\ i < j /\ j < k
          /\ fault[tasks[j].path] = "missing"
          /\ i \in UnitsWithMatch /\ k \in UnitsWithMatch

\* Some unit of the run has a rule whose pattern does not compile.
HasNonCompilingPattern ==
    \E i \in UnitIds : \E r \in 1..Len(RulesOf(i)) : RulesOf(i)[r].bad = "pattern"

\* C14: in a run whose unit list holds a rule with a pattern that does not
\* compile, no unit ever starts, no file is opened for writing, and no
\* regex error entry is recorded for a file.
NonCompilingPatternIsFatal ==
    HasNonCompilingPattern =>
        /\ \A i \in UnitIds : units[i].st = "queued"
        /\ \A p \in Tree : writes[p] = 0
        /\ \A n \in DOMAIN result.errors : result.errors[n].kind # "regex"
        /\ \A i \in UnitIds : \A n \in DOMAIN units[i].errors : units[i].errors[n].kind # "regex"

\* Every unit of the run has run and its result has been merged.
AllMerged == \A i \in UnitIds : units[i].st = "merged" /\ i \notin Range(completed)

\* C15: the run is finalized (exit status computed) only when every unit
\* has run and been merged, and every run whose units have been built is
\* eventually finalized, whatever errors its units record.
AllUnitsMergedBeforeFinalized ==
    /\ [](exit_status # -1 => (Done /\ AllMerged))
    /\ [](Done => (AllMerged /\ exit_status # -1))
    /\ ((pc = "run") ~> Done)

\* A finished run in which a unit recorded an error and a unit submitted
\* after it found matches.
SiblingsWitness ==
    /\ Done /\ AllMerged
    /\ \E i, j \in UnitIds :
          /\ i < j
          /\ fault[tasks[i].path] \in {"unreadable", "unwritable"}
          /\ ErrorsOf("read", tasks[i].path) \cup ErrorsOf("write", tasks[i].path) # {}
          /\ j \in UnitsWithMatch

\* C16: while the pool runs, a step of a worker (a step that changes a
\* unit that has not returned) changes that unit only and leaves the run
\* result alone, and every step that changes the run result adds to it the
\* four parts of the oldest finished unit at once and marks it merged.
ResultChangesOnlyInMerge ==
    [][ (cfg.variant = "performance" /\ pc = "run") =>
          /\ \A i \in UnitIds :
                (units[i].st \in {"queued", "open", "writing"} /\ units'[i] # units[i]) =>
                    /\ result' = result
                    /\ \A j \in UnitIds \ {i} : units'[j] = units[j]
          /\ result' # result =>
                /\ completed # <<>>
                /\ result' = [applied |-> result.applied + units[Head(completed)].applied,
                              skipped |-> result.skipped + units[Head(completed)].skipped,
                              failed  |-> result.failed,
                              errors  |-> result.errors \o units[Head(completed)].errors,
                              details |-> result.details \o units[Head(completed)].details]
                /\ units'[Head(completed)].st = "merged"
                /\ units[Head(completed)].st = "finished"
      ]_vars

\* The pool of more than one worker: a unit with a change record and an
\* error has been merged while another unit is between its read and its
\* return.
MergeWitness ==
    /\ cfg.variant = "performance" /\ cfg.max_workers > 1 /\ pc = "run"
    /\ result.details # <<>> /\ result.errors # <<>> /\ result.applied > 0
    /\ \E i \in UnitIds : Busy(i)

\* C17: the unit list handed to the pool holds no two units with the same
\* path, and no two units are between read and return on the same file.
NoTwoUnitsOnOneFile ==
    cfg.variant = "performance" =>
        /\ \A i, j \in UnitIds : i # j => tasks[i].path # tasks[j].path
        /\ \A i, j \in UnitIds : (i # j /\ Busy(i) /\ Busy(j)) => tasks[i].path # tasks[j].path

\* C18: after an apply run that recorded no error, every file holds what
\* applying the rule lists of its units one after another, in the order of
\* the unit list, makes of its initial text.
FinalContentIsSequentialApplication ==
    (Done /\ ~cfg.dry_run /\ result.errors = <<>>) =>
        \A p \in Tree : disk[p] = OneWorkerRun(tasks, disk0, PatchResult).disk[p]

\* The (unit, rule) pairs whose substitution raised: the replacement is
\* rejected, the rule matched, and the run substitutes.
RaisedInSub ==
    { pr \in Pairs : /\ RulesOf(pr[1])[pr[2]].bad = "template"
                     /\ Found(pr[1], pr[2]) > 0
                     /\ ~cfg.dry_run }

\* C19: when the run has finished, for every rule whose substitution
\* raised there is exactly one regex error entry, naming the unit's file
\* and the rule; the text the rule matched is still in the unit's buffer,
\* the rule has no change entry and added nothing to the applied counter,
\* and the rules after it in the list were evaluated.
SubstitutionErrorIsRecordedPerRule ==
    Done =>
        \A pr \in RaisedInSub :
            LET i == pr[1]
                rule == RulesOf(i)[pr[2]]
            IN /\ Cardinality({ n \in DOMAIN result.errors :
                                  /\ result.errors[n].kind = "regex"
                                  /\ result.errors[n].rule = rule.name }) = 1
               /\ \A n \in DOMAIN result.errors :
                     (result.errors[n].kind = "regex" /\ result.errors[n].rule = rule.name)
                         => result.errors[n].file = tasks[i].path
               /\ findall(rule, BufferOf(i).content) = findall(rule, units[i].original)
               /\ \A n \in DOMAIN BufferOf(i).changes : BufferOf(i).changes[n].name # rule.name
               /\ \A n \in DOMAIN result.details :
                     \A c \in DOMAIN result.details[n].changes :
                         result.details[n].changes[c].name # rule.name
               /\ result.applied = TotalFound - Found(i, pr[2])
               /\ Len(units[i].found) = Len(RulesOf(i))

\* The units that ran their rules and ended with the text they had read.
UnitsWithBufferUnchanged ==
    { i \in UnitIds : units[i].found # <<>> /\ BufferOf(i).content = units[i].original }

\* The change records in flight or merged: one per unit that emitted one.
RecordsEmitted ==
    Len(result.details) + Cardinality({ i \in UnitIds : units[i].details # <<>> })

\* C20 as stated: a unit whose buffer after its rules equals the text it
\* read never opens its file for writing and emits no change record: when
\* the run has finished there are at most as many records as units whose
\* buffer changed.
UnchangedBufferNoWriteNoRecord ==
    /\ \A i \in UnitsWithBufferUnchanged : units[i].st \notin {"open", "writing"}
    /\ Done => RecordsEmitted <= Cardinality(UnitIds \ UnitsWithBufferUnchanged)

\* The units with a rule that matched and whose substitution did not raise.
UnitsWithTalliedMatch ==
    { i \in UnitIds : \E r \in 1..Len(units[i].found) :
                          units[i].found[r] > 0 /\ <<i, r>> \notin RaisedInSub }

\* C20 as amended: a unit whose buffer after its rules equals the text it
\* read never opens its file for writing, and no file is opened more often
\* than it has units whose buffer changed; a unit emits a change record
\* exactly if one of its rules matched without its substitution raising,
\* whether or not its buffer changed.
UnchangedBufferNoWrite ==
    /\ \A i \in UnitsWithBufferUnchanged : units[i].st \notin {"open", "writing"}
    /\ \A p \in Tree :
          writes[p] <= Cardinality({ i \in UnitsOn(p) : i \notin UnitsWithBufferUnchanged })
    /\ Done => RecordsEmitted = Cardinality(UnitsWithTalliedMatch)

\* The second of two apply runs has finished: a unit's rule matched the
\* value the first run wrote, its buffer is unchanged, and its file was not
\* opened for writing.
UnchangedBufferWitness ==
    /\ Done /\ pass = 2 /\ ~cfg.dry_run
    /\ \E i \in UnitsWithBufferUnchanged :
          /\ i \in UnitsWithMatch
          /\ writes[tasks[i].path] = 0
          /\ fault[tasks[i].path] = "ok"

---------------------------------------------------------------------------
(* Validation, file resolution and rule order *)

\* C21: in the pool program, once the unit list is built, the rule list of
\* every unit, the CPU list chosen by the architecture included, has been
\* handed to the validator exactly once, and the unit list is the one
\* apply_all builds for the tree whatever the validator reported.
EveryScheduledSetValidatedOnce ==
    (cfg.variant = "performance" /\ pc \in {"run", "done"}) =>
        /\ \A i \in UnitIds : Count(tasks[i].set, validated) = 1
        /\ tasks = BuildTaskList(cfg, Tree)

\* The part of the above that the pool program does satisfy: every
\* scheduled list other than the CPU list is validated exactly once, the
\* CPU list never, and warnings do not change the unit list.
CPU_SETS == {"CPU_X86_64_PATCHES", "CPU_ARM64EC_PATCHES"}

AllButCpuSetValidatedOnce ==
    (cfg.variant = "performance" /\ pc \in {"run", "done"}) =>
        /\ \A i \in UnitIds :
              Count(tasks[i].set, validated) =
                  IF tasks[i].set \in CPU_SETS THEN 0 ELSE 1
        /\ tasks = BuildTaskList(cfg, Tree)

\* The candidate roots of the resolver in priority order (<<>> is the
\* source root itself) and the excluded path parts of each program.
AnchorCandidates(variant) ==
    IF variant = "scripts" THEN << <<"libs", "vkd3d">>, <<"src">>, <<>> >>
    ELSE << <<"libs", "vkd3d">> >>
ExcludedOf(variant) == IF variant = "scripts" THEN EX_D ELSE EXCLUDED_DIRS

\* Some file named device.c lies under root c and not on an excluded path.
HoldsUsableAnchor(c, tree, exs) ==
    \E p \in tree : IsPrefix(c, p) /\ Basename(p) = "device.c" /\ ~AnyIn(exs, p)

\* The first candidate with such a file, the source root when there is none.
RECURSIVE FirstWithUsableAnchor(_, _, _)
FirstWithUsableAnchor(cands, tree, exs) ==
    IF cands = <<>> THEN <<>>
    ELSE IF HoldsUsableAnchor(Head(cands), tree, exs) THEN Head(cands)
    ELSE FirstWithUsableAnchor(Tail(cands), tree, exs)

\* The root the program resolved and the rule lists of its capability files.
ResolvedRoot == IF cfg.variant = "scripts" THEN find_vkd3d(Tree) ELSE find_vkd3d_dir(Tree)
CapabilitySets ==
    IF cfg.variant = "scripts" THEN Range(get_patches(cfg.profile))
    ELSE Range(get_patches_for_profile(cfg.profile))
\* The capability file list: the files that got units with those lists.
CapabilityFileList == { tasks[i].path : i \in { j \in UnitIds : tasks[j].set \in CapabilitySets } }

\* C22: once the unit list of patcher.py or scripts/patcher.py is built, the
\* resolved root is the first candidate root, in priority order, that holds
\* a device.c off every excluded path, or the source root when no candidate
\* holds one; and when some candidate holds one, the capability file list
\* is not empty.
AnchorRootIsFirstWithUsableAnchor ==
    (cfg.variant \in {"patches", "scripts"} /\ pc \in {"run", "done"}) =>
        /\ ResolvedRoot = FirstWithUsableAnchor(AnchorCandidates(cfg.variant), Tree,
                                                ExcludedOf(cfg.variant))
        /\ (\E k \in 1..Len(AnchorCandidates(cfg.variant)) :
               HoldsUsableAnchor(AnchorCandidates(cfg.variant)[k], Tree, ExcludedOf(cfg.variant)))
           => CapabilityFileList # {}

\* The buffer of an application pass after the first n rules of the list:
\* each rule that matches the buffer left by the rules before it (and whose
\* substitution does not raise) is substituted in it, in list order.
RECURSIVE BufferAfter(_, _, _)
BufferAfter(text, patches, n) ==
    IF n = 0 THEN text
    ELSE LET before == BufferAfter(text, patches, n - 1)
             rule == patches[n]
         IN IF rule.bad = "none" /\ findall(rule, before) > 0
            THEN sub(rule, before) ELSE before

\* The units that ran their rules in a run that is not a dry run.
UnitsApplied == { i \in UnitIds : ~cfg.dry_run /\ units[i].found # <<>> }

\* Every rule of such a unit was counted, in list order, on the buffer left
\* by the rules before it (a rule whose pattern does not compile has no
\* count), and the buffer held for writing is the one left by the last rule.
CountsTakenOnRunningBuffer ==
    \A i \in UnitsApplied :
        /\ Len(units[i].found) = Len(RulesOf(i))
        /\ \A r \in 1..Len(RulesOf(i)) :
              Found(i, r) = IF RulesOf(i)[r].bad = "pattern" THEN -1
                            ELSE findall(RulesOf(i)[r],
                                         BufferAfter(units[i].original, RulesOf(i), r - 1))
        /\ units[i].st \in {"open", "writing"} =>
              units[i].content = BufferAfter(units[i].original, RulesOf(i), Len(RulesOf(i)))

\* A write that completes puts the buffer left by the last rule in the file.
WriteStoresLastBuffer ==
    \A i \in UnitIds :
        (units[i].st = "writing" /\ units'[i].st # "writing") =>
            disk'[tasks[i].path] =
                Overlay(BufferAfter(units[i].original, RulesOf(i), Len(RulesOf(i))),
                        disk[tasks[i].path])

\* C23: in a pass that is not a dry run the rules are applied in list
\* order, the match count of each rule is taken on the buffer produced by
\* the earlier matching rules of the pass and not on the content read, and
\* the content written back is the buffer after the last rule.
RulesSeeEarlierRulesOutput ==
    [] CountsTakenOnRunningBuffer /\ [][WriteStoresLastBuffer]_vars

\* A unit wrote its file after a rule found a count on the running buffer
\* that differs from its count on the content read.
RulesSeeEarlierRulesOutputWitness ==
    \E i \in UnitsApplied :
        /\ units[i].st = Returned
        /\ \E r \in 1..Len(RulesOf(i)) :
              Found(i, r) # findall(RulesOf(i)[r], units[i].original)
        /\ disk[tasks[i].path] # units[i].original
        /\ disk[tasks[i].path] = BufferAfter(units[i].original, RulesOf(i), Len(RulesOf(i)))

=============================================================================
